---- MODULE Spec2Model ----
(***************************************************************************)
(* Model of GitConflictDetector (src/src/git-conflict-detector.ts).        *)
(*                                                                         *)
(* Strings are sequences of tokens.  Text that comes from outside (config  *)
(* fields, command output, file names) is a sequence of one-character      *)
(* tokens; a literal piece of a message template is one token.  A value    *)
(* that may be absent (null / undefined) is None or Some(v).               *)
(***************************************************************************)
EXTENDS Integers, Sequences, FiniteSets, TLC

\* ------------------------------------------------------------------ bounds
MaxBranchOut == 4   \* longest output of `git branch --list`, in characters
MaxMergeOut  == 2   \* longest output of `git merge-base`, in characters
MaxLines     == 3   \* most lines in the output of `git diff --name-status`
MaxRemote    == 3   \* most entries in the files array of the HTTP response

\* ------------------------------------------------------- optional values
None == <<>>
Some(v) == <<v>>

\* ------------------------------------------------------ string primitives
\* String.prototype.trim removes these from both ends
WhiteSpace == {" ", "\t", "\n"}

RECURSIVE TrimStart(_)
TrimStart(s) ==
  IF s # <<>> /\ Head(s) \in WhiteSpace THEN TrimStart(Tail(s)) ELSE s

RECURSIVE TrimEnd(_)
TrimEnd(s) ==
  IF s # <<>> /\ s[Len(s)] \in WhiteSpace
    THEN TrimEnd(SubSeq(s, 1, Len(s) - 1)) ELSE s

\* String.prototype.trim
Trim(s) == TrimEnd(TrimStart(s))

\* String.prototype.split(sep) for a one-character separator: always at
\* least one piece, empty pieces kept
RECURSIVE SplitAcc(_, _, _)
SplitAcc(s, sep, cur) ==
  IF s = <<>> THEN <<cur>>
  ELSE IF Head(s) = sep THEN <<cur>> \o SplitAcc(Tail(s), sep, <<>>)
  ELSE SplitAcc(Tail(s), sep, Append(cur, Head(s)))

Split(s, sep) == SplitAcc(s, sep, <<>>)

\* Array.prototype.join(sep)
RECURSIVE Join(_, _)
Join(parts, sep) ==
  IF parts = <<>> THEN <<>>
  ELSE IF Len(parts) = 1 THEN parts[1]
  ELSE parts[1] \o <<sep>> \o Join(Tail(parts), sep)

\* Array.prototype.filter(Boolean) on an array of strings: drops only ''
RECURSIVE FilterBoolean(_)
FilterBoolean(parts) ==
  IF parts = <<>> THEN <<>>
  ELSE IF Head(parts) = <<>> THEN FilterBoolean(Tail(parts))
  ELSE <<Head(parts)>> \o FilterBoolean(Tail(parts))

\* Array.prototype.includes
Includes(arr, x) == \E i \in 1..Len(arr) : arr[i] = x

\* String.prototype.includes (what the tests' toContain checks)
Contains(s, t) ==
  \E i \in 0..(Len(s) - Len(t)) : SubSeq(s, i + 1, i + Len(t)) = t

StartsWith(s, t) == Len(t) <= Len(s) /\ SubSeq(s, 1, Len(t)) = t

\* all strings over an alphabet, up to a length
StringsUpTo(alphabet, n) == UNION {[1..k -> alphabet] : k \in 0..n}

\* ------------------------------------------------------------ JS values
\* A value thrown by an external call.  isError: `instanceof Error`.
\* isAxiosError: the whole test of line 227 (a truthy object whose
\* isAxiosError property is truthy).  message: the .message property.
\* str: String(v), None when String(v) itself throws (an object without
\* toString, such as Object.create(null)).  response: the .response
\* property with its .status and .data.message.
Thrown(isError, isAxiosError, message, str, response) ==
  [isError |-> isError, isAxiosError |-> isAxiosError, message |-> message,
   str |-> str, response |-> response]

Response(status, dataMessage) ==
  Some([status |-> status, dataMessage |-> dataMessage])

\* new Error(msg)
NewError(msg) ==
  Thrown(TRUE, FALSE, Some(msg), Some(<<"Error: ">> \o msg), None)

\* the TypeError String(v) raises for a value it cannot convert
CannotConvert == NewError(<<"Cannot convert object to primitive value">>)

\* placeholder in the err field of an outcome that returned
NoThrow == Thrown(FALSE, FALSE, None, None, None)

\* `${v}` of a possibly undefined string
Template(opt) == IF opt = None THEN <<"undefined">> ELSE opt[1]

\* truthiness of a possibly null/undefined string
Truthy(opt) == opt # None /\ opt[1] # <<>>

\* ------------------------------------------- outcomes of external calls
\* exists: the answer of fs.existsSync; out: the text execSync returns;
\* body: the response axios.get resolves to; err: the value thrown
NoBody == [hasData |-> FALSE, files |-> None, isArray |-> FALSE]
Outcome(kind, exists, out, body, err) ==
  [kind |-> kind, exists |-> exists, out |-> out, body |-> body, err |-> err]

Threw(t)    == Outcome("throw", FALSE, <<>>, NoBody, t)
Exists(b)   == Outcome("return", b, <<>>, NoBody, NoThrow)
Returned(v) == Outcome("return", FALSE, v, NoBody, NoThrow)
\* response.data is an object whose files property is absent (None) or an
\* array; NoData: response.data is undefined; NotArray: files is a truthy
\* value without a map method
Resolved(files) ==
  Outcome("return", FALSE, <<>>,
          [hasData |-> TRUE, files |-> files, isArray |-> TRUE], NoThrow)
NoData == Outcome("return", FALSE, <<>>, NoBody, NoThrow)
NotArray ==
  Outcome("return", FALSE, <<>>,
          [hasData |-> TRUE, files |-> Some(<<>>), isArray |-> FALSE], NoThrow)

\* one external call as the program issued it
ExistsCall(path) == [api |-> "fs.existsSync", arg |-> path, opt |-> <<>>]
ExecCall(command, cwd) ==
  [api |-> "execSync", arg |-> <<"git ">> \o command, opt |-> cwd]
GetCall(url, token) ==
  [api |-> "axios.get", arg |-> url, opt |-> <<"Bearer ">> \o token]

\* ------------------------------------------- completion of a method
\* value: what it returned; err: what it threw; io: the external calls it
\* made, in order
Ret(v, io) == [kind |-> "return", value |-> v, err |-> NoThrow, io |-> io]
Thr(t, io) == [kind |-> "throw", value |-> <<>>, err |-> t, io |-> io]

\* -------------------------------------------------------------- the state
VARIABLES
  config,           \* this.config
  pc,               \* where findPotentialConflicts stands
  stage,            \* the method that ran last
  calls,            \* the external calls issued so far, in order
  last,             \* what the external calls of that method did
  mergeBaseCommit,  \* local of findPotentialConflicts, <<>> while unset
  localChanges,     \* local of findPotentialConflicts
  result,           \* None, or Some(the ConflictDetectionResult resolved to)
  heard,            \* the answers the external calls of an invocation got
  earlier,          \* None, or Some(how the invocation before this one ended)
  cli,              \* the run of main() in cli.ts: arguments, position, exit
  caller            \* what the calling program holds besides this invocation

vars ==
  <<config, pc, stage, calls, last, mergeBaseCommit, localChanges, result,
    heard, earlier, cli, caller>>

\* ------------------------------------------------------------ the methods
\* execGitCommand without the cwd option: the command runs in the working
\* directory of the process
execGitCommandNoCwd(cfg, command, out) ==
  LET io == <<ExecCall(command, <<>>)>> IN
  IF out.kind = "return" THEN Ret(out.out, io)
  ELSE IF out.err.isError
    THEN Thr(NewError(<<"Git command failed", ": git ">> \o command \o <<" - ">>
                       \o out.err.message[1]), io)
  ELSE Thr(out.err, io)

\* execGitCommand: out is what execSync does for this command
execGitCommand(cfg, command, out) ==
  LET io == <<ExecCall(command, cfg.localRepoPath)>> IN
  IF out.kind = "return" THEN Ret(out.out, io)
  ELSE IF out.err.isError
    THEN Thr(NewError(<<"Git command failed", ": git ">> \o command \o <<" - ">>
                       \o out.err.message[1]), io)
  ELSE Thr(out.err, io)

\* validateConfig with the repository name checked before the owner
validateConfigRepoFirst(cfg, ex) ==
  IF cfg.repo = <<>> THEN Ret(Some(<<"Repository name is required">>), <<>>)
  ELSE IF cfg.owner = <<>> THEN Ret(Some(<<"Owner is required">>), <<>>)
  ELSE IF cfg.accessToken = <<>> THEN Ret(Some(<<"Access token is required">>), <<>>)
  ELSE IF cfg.localRepoPath = <<>>
    THEN Ret(Some(<<"Local repository path is required">>), <<>>)
  ELSE IF cfg.branchA = <<>> THEN Ret(Some(<<"Branch A name is required">>), <<>>)
  ELSE IF cfg.branchB = <<>> THEN Ret(Some(<<"Branch B name is required">>), <<>>)
  ELSE LET io == <<ExistsCall(cfg.localRepoPath)>> IN
    IF ex.kind = "throw" THEN Thr(ex.err, io)
    ELSE IF ~ex.exists
      THEN Ret(Some(<<"Local repository path does not exist: ">>
                     \o cfg.localRepoPath), io)
    ELSE Ret(None, io)

\* validateConfig with the existence check made before the branch names
\* are looked at
validateConfigExistsEarly(cfg, ex) ==
  IF cfg.owner = <<>> THEN Ret(Some(<<"Owner is required">>), <<>>)
  ELSE IF cfg.repo = <<>> THEN Ret(Some(<<"Repository name is required">>), <<>>)
  ELSE IF cfg.accessToken = <<>> THEN Ret(Some(<<"Access token is required">>), <<>>)
  ELSE IF cfg.localRepoPath = <<>>
    THEN Ret(Some(<<"Local repository path is required">>), <<>>)
  ELSE LET io == <<ExistsCall(cfg.localRepoPath)>> IN
    IF ex.kind = "throw" THEN Thr(ex.err, io)
    ELSE IF ~ex.exists
      THEN Ret(Some(<<"Local repository path does not exist: ">>
                     \o cfg.localRepoPath), io)
    ELSE IF cfg.branchA = <<>>
      THEN Ret(Some(<<"Branch A name is required">>), io)
    ELSE IF cfg.branchB = <<>>
      THEN Ret(Some(<<"Branch B name is required">>), io)
    ELSE Ret(None, io)

\* validateConfig: ex is what fs.existsSync does if it is asked
validateConfig(cfg, ex) ==
  IF cfg.owner = <<>> THEN Ret(Some(<<"Owner is required">>), <<>>)
  ELSE IF cfg.repo = <<>> THEN Ret(Some(<<"Repository name is required">>), <<>>)
  ELSE IF cfg.accessToken = <<>> THEN Ret(Some(<<"Access token is required">>), <<>>)
  ELSE IF cfg.localRepoPath = <<>>
    THEN Ret(Some(<<"Local repository path is required">>), <<>>)
  ELSE IF cfg.branchA = <<>> THEN Ret(Some(<<"Branch A name is required">>), <<>>)
  ELSE IF cfg.branchB = <<>> THEN Ret(Some(<<"Branch B name is required">>), <<>>)
  ELSE LET io == <<ExistsCall(cfg.localRepoPath)>> IN
    IF ex.kind = "throw" THEN Thr(ex.err, io)
    ELSE IF ~ex.exists
      THEN Ret(Some(<<"Local repository path does not exist: ">>
                     \o cfg.localRepoPath), io)
    ELSE Ret(None, io)

RevParseCommand == <<"rev-parse --is-inside-work-tree">>
BranchListCommand == <<"branch --list">>

\* branch.trim().replace(/^\*\s*/, '')
RECURSIVE SkipSpace(_)
SkipSpace(s) ==
  IF s # <<>> /\ Head(s) \in WhiteSpace THEN SkipSpace(Tail(s)) ELSE s

\* the marker removed only when a blank follows it: replace(/^\*\s+/, '')
StripMarkerNeedsBlank(line) ==
  LET t == Trim(line) IN
  IF Len(t) >= 2 /\ Head(t) = "*" /\ t[2] \in WhiteSpace
    THEN SkipSpace(Tail(t)) ELSE t

StripMarker(line) ==
  LET t == Trim(line) IN
  IF t # <<>> /\ Head(t) = "*" THEN SkipSpace(Tail(t)) ELSE t

\* the branch names read from the output of `branch --list`
BranchNames(output) ==
  LET lines == Split(output, "\n") IN
  FilterBoolean([i \in 1..Len(lines) |-> StripMarker(lines[i])])

\* the catch block of validateLocalRepository
RepoCatch(cfg, t, io) ==
  IF t.isError
    THEN Ret(Some(<<"Invalid git repository", " at ">> \o cfg.localRepoPath
                   \o <<": ">> \o t.message[1]), io)
  ELSE IF t.str = None THEN Thr(CannotConvert, io)
  ELSE Ret(t.str, io)

\* validateLocalRepository: rp, br are what execSync does for the two
\* commands (br only if the first one returned)
validateLocalRepository(cfg, rp, br) ==
  LET r1 == execGitCommand(cfg, RevParseCommand, rp) IN
  IF r1.kind = "throw" THEN RepoCatch(cfg, r1.err, r1.io)
  ELSE
    LET r2 == execGitCommand(cfg, BranchListCommand, br)
        io == r1.io \o r2.io
    IN IF r2.kind = "throw" THEN RepoCatch(cfg, r2.err, io)
       ELSE IF ~Includes(BranchNames(r2.value), cfg.branchB)
         THEN Ret(Some(<<"Branch '">> \o cfg.branchB
                        \o <<"' does not exist locally">>), io)
       ELSE Ret(None, io)

\* the catch block of findMergeBaseCommit
MergeBaseCatch(t, io) ==
  IF t.isError
    THEN Thr(NewError(<<"Failed to find merge base", ": ">> \o t.message[1]), io)
  ELSE Thr(t, io)

MergeBaseCommand(cfg) ==
  <<"merge-base ">> \o (<<"origin/">> \o cfg.branchA) \o <<" ">> \o cfg.branchB

\* findMergeBaseCommit returning the output as printed, not trimmed
findMergeBaseCommitUntrimmed(cfg, mb) ==
  LET remoteRef == <<"origin/">> \o cfg.branchA
      r == execGitCommand(cfg, MergeBaseCommand(cfg), mb)
  IN IF r.kind = "throw" THEN MergeBaseCatch(r.err, r.io)
     ELSE IF Trim(r.value) = <<>>
         THEN MergeBaseCatch(
                NewError(<<"Could not find merge base between ">> \o remoteRef
                         \o <<" and ">> \o cfg.branchB), r.io)
       ELSE Ret(r.value, r.io)

\* findMergeBaseCommit testing the output before trimming it
findMergeBaseCommitBlankAccepted(cfg, mb) ==
  LET remoteRef == <<"origin/">> \o cfg.branchA
      r == execGitCommand(cfg, MergeBaseCommand(cfg), mb)
  IN IF r.kind = "throw" THEN MergeBaseCatch(r.err, r.io)
     ELSE IF r.value = <<>>
         THEN MergeBaseCatch(
                NewError(<<"Could not find merge base between ">> \o remoteRef
                         \o <<" and ">> \o cfg.branchB), r.io)
       ELSE Ret(Trim(r.value), r.io)

\* findMergeBaseCommit: mb is what execSync does for the command
findMergeBaseCommit(cfg, mb) ==
  LET remoteRef == <<"origin/">> \o cfg.branchA
      r == execGitCommand(cfg, MergeBaseCommand(cfg), mb)
  IN IF r.kind = "throw" THEN MergeBaseCatch(r.err, r.io)
     ELSE LET mergeBase == Trim(r.value) IN
       IF mergeBase = <<>>
         THEN MergeBaseCatch(
                NewError(<<"Could not find merge base between ">> \o remoteRef
                         \o <<" and ">> \o cfg.branchB), r.io)
       ELSE Ret(mergeBase, r.io)

\* a line parsed with the second field alone as the filename:
\* const [status, filename] = line.trim().split('\t')
ParseLineSecondField(line) ==
  LET parts == Split(Trim(line), "\t") IN
  [filename |-> IF Len(parts) >= 2 THEN parts[2] ELSE <<>>,
   status |-> Head(parts)]

\* a line parsed with its last field as the filename: the new name of a
\* renamed file
ParseLineNewName(line) ==
  LET parts == Split(Trim(line), "\t") IN
  [filename |-> IF Len(parts) >= 2 THEN parts[Len(parts)] ELSE <<>>,
   status |-> Head(parts)]

\* a line split as it stands: line.split('\t')
ParseLineUntrimmed(line) ==
  LET parts == Split(line, "\t") IN
  [filename |-> Join(Tail(parts), "\t"), status |-> Head(parts)]

\* one line of the diff output as a FileChange
ParseLine(line) ==
  LET parts == Split(Trim(line), "\t") IN
  [filename |-> Join(Tail(parts), "\t"), status |-> Head(parts)]

parseGitDiffOutput(output) ==
  IF Trim(output) = <<>> THEN <<>>
  ELSE LET lines == FilterBoolean(Split(Trim(output), "\n")) IN
       [i \in 1..Len(lines) |-> ParseLine(lines[i])]

DiffCommand(cfg, mergeBase) ==
  <<"diff --name-status ">> \o mergeBase \o <<" ">> \o cfg.branchB

\* getLocalChanges: df is what execSync does for the command
getLocalChanges(cfg, mergeBase, df) ==
  LET r == execGitCommand(cfg, DiffCommand(cfg, mergeBase), df) IN
  IF r.kind = "return" THEN Ret(parseGitDiffOutput(r.value), r.io)
  ELSE IF r.err.isError
    THEN Thr(NewError(<<"Failed to get local changes", ": ">> \o r.err.message[1]),
             r.io)
  ELSE Thr(r.err, r.io)

\* the URL with two dots between base and head (the other comparison
\* the service offers)
CompareUrlTwoDots(cfg, mergeBase) ==
  <<"https://api.github.com/repos/">> \o cfg.owner \o <<"/">> \o cfg.repo
    \o <<"/compare/">> \o mergeBase \o <<"..">> \o cfg.branchA

CompareUrl(cfg, mergeBase) ==
  <<"https://api.github.com/repos/">> \o cfg.owner \o <<"/">> \o cfg.repo
    \o <<"/compare/">> \o mergeBase \o <<"...">> \o cfg.branchA

\* the request getRemoteChanges sends before it suspends
RemoteRequest(cfg, mergeBase) ==
  GetCall(CompareUrl(cfg, mergeBase), cfg.accessToken)

\* the catch block of getRemoteChanges preferring the fault's own message:
\* axiosError.message || axiosError.response?.data?.message
RemoteCatchOwnMessageFirst(t, io) ==
  IF t.isAxiosError THEN
    LET statusCode == IF t.response = None THEN None ELSE t.response[1].status
        dataMessage ==
          IF t.response = None THEN None ELSE t.response[1].dataMessage
        message == IF Truthy(t.message) THEN t.message ELSE dataMessage
    IN Thr(NewError(<<"GitHub API error", " (">> \o Template(statusCode)
                     \o <<"): ">> \o Template(message)), io)
  ELSE IF t.isError
    THEN Thr(NewError(<<"Failed to get remote changes", ": ">> \o t.message[1]), io)
  ELSE IF t.str = None THEN Thr(CannotConvert, io)
  ELSE Thr(NewError(<<"Failed to get remote changes", ": ">> \o t.str[1]), io)

\* the catch block of getRemoteChanges
RemoteCatch(t, io) ==
  IF t.isAxiosError THEN
    LET statusCode == IF t.response = None THEN None ELSE t.response[1].status
        dataMessage ==
          IF t.response = None THEN None ELSE t.response[1].dataMessage
        message == IF Truthy(dataMessage) THEN dataMessage ELSE t.message
    IN Thr(NewError(<<"GitHub API error", " (">> \o Template(statusCode)
                     \o <<"): ">> \o Template(message)), io)
  ELSE IF t.isError
    THEN Thr(NewError(<<"Failed to get remote changes", ": ">> \o t.message[1]), io)
  ELSE IF t.str = None THEN Thr(CannotConvert, io)
  ELSE Thr(NewError(<<"Failed to get remote changes", ": ">> \o t.str[1]), io)

\* getRemoteChanges without the `|| []` default: response.data.files.map
getRemoteChangesFilesRequired(cfg, mergeBase, http) ==
  LET io == <<RemoteRequest(cfg, mergeBase)>> IN
  IF http.kind = "throw" THEN RemoteCatch(http.err, io)
  ELSE IF ~http.body.hasData
    THEN RemoteCatch(NewError(
           <<"Cannot read properties of undefined (reading 'files')">>), io)
  ELSE IF http.body.files = None
    THEN RemoteCatch(NewError(
           <<"Cannot read properties of undefined (reading 'map')">>), io)
  ELSE IF ~http.body.isArray
    THEN RemoteCatch(NewError(<<"files.map is not a function">>), io)
  ELSE Ret(http.body.files[1], io)

\* getRemoteChanges with a catch block that reads this.config.branchA
\* and puts it at the end of the message
getRemoteChangesNamingBranch(cfg, mergeBase, http) ==
  LET io == <<RemoteRequest(cfg, mergeBase)>>
      named(r) ==
        Thr(NewError(r.err.message[1] \o <<" (">> \o cfg.branchA \o <<")">>),
            io)
  IN
  IF http.kind = "throw" THEN named(RemoteCatch(http.err, io))
  ELSE IF ~http.body.hasData
    THEN named(RemoteCatch(NewError(
           <<"Cannot read properties of undefined (reading 'files')">>), io))
  ELSE IF http.body.files = None THEN Ret(<<>>, io)
  ELSE IF ~http.body.isArray
    THEN named(RemoteCatch(NewError(<<"files.map is not a function">>), io))
  ELSE Ret(http.body.files[1], io)

\* getRemoteChanges: http is what axios.get does for the request
getRemoteChanges(cfg, mergeBase, http) ==
  LET io == <<RemoteRequest(cfg, mergeBase)>> IN
  IF http.kind = "throw" THEN RemoteCatch(http.err, io)
  ELSE IF ~http.body.hasData
    THEN RemoteCatch(NewError(
           <<"Cannot read properties of undefined (reading 'files')">>), io)
  ELSE IF http.body.files = None THEN Ret(<<>>, io)
  ELSE IF ~http.body.isArray
    THEN RemoteCatch(NewError(<<"files.map is not a function">>), io)
  ELSE Ret(http.body.files[1], io)

\* Array.prototype.filter then map to the filename
RECURSIVE FilterNames(_, _)
FilterNames(changes, names) ==
  IF changes = <<>> THEN <<>>
  ELSE IF Head(changes).filename \in names
    THEN <<Head(changes).filename>> \o FilterNames(Tail(changes), names)
  ELSE FilterNames(Tail(changes), names)

\* findCommonChanges filtering the local list by the remote names
findCommonChangesLocalOrder(local, remote) ==
  LET remoteFiles == {remote[i].filename : i \in 1..Len(remote)}
  IN FilterNames(local, remoteFiles)

\* findCommonChanges leaving out what the remote branch removed
findCommonChangesSkippingRemoved(local, remote) ==
  LET localFiles == {local[i].filename : i \in 1..Len(local)}
      kept(change) == change.status # <<"removed">>
  IN FilterNames(SelectSeq(remote, kept), localFiles)

findCommonChanges(local, remote) ==
  LET localFiles == {local[i].filename : i \in 1..Len(local)}
  IN FilterNames(remote, localFiles)

\* an error result that reports the merge base found so far
ErrorResultKeepingBase(msg) ==
  [potentialConflicts |-> <<>>, mergeBaseCommit |-> mergeBaseCommit,
   error |-> Some(msg)]

\* the result every failure path resolves to (lines 59-63, 69-73, 93-97)
ErrorResult(msg) ==
  [potentialConflicts |-> <<>>, mergeBaseCommit |-> <<>>, error |-> Some(msg)]

\* the result of the success path (lines 88-91): no error property
SuccessResult(conflicts, mergeBase) ==
  [potentialConflicts |-> conflicts, mergeBaseCommit |-> mergeBase,
   error |-> None]

\* the catch block of findPotentialConflicts: the result it returns, or
\* None when String(error) throws inside the catch block, which rejects
\* the promise
Caught(t) ==
  IF t.isError THEN Some(ErrorResult(t.message[1]))
  ELSE IF t.str = None THEN None
  ELSE Some(ErrorResult(t.str[1]))

\* ------------------------------------------------------------ the inputs
Configs ==
  [owner : {<<>>, <<"o">>}, repo : {<<>>, <<"r">>},
   accessToken : {<<>>, <<"t">>}, localRepoPath : {<<>>, <<"p">>},
   branchA : {<<>>, <<"a">>}, branchB : {<<>>, <<"b">>}]

\* values an external call may throw: new Error(''), new Error('fatal'),
\* the strings '' and 'oops', and Object.create(null)
EmptyError == NewError(<<>>)
FatalError == NewError(<<"fatal">>)
EmptyString == Thrown(FALSE, FALSE, None, Some(<<>>), None)
OopsString == Thrown(FALSE, FALSE, None, Some(<<"oops">>), None)
NullProto == Thrown(FALSE, FALSE, None, None, None)
Throwables == {EmptyError, FatalError, EmptyString, OopsString, NullProto}

\* values axios.get may reject with: an AxiosError with status and service
\* message, one with a status only, one without response, the plain object
\* {isAxiosError: true, message: 'Network Error'} and {isAxiosError: true}
NotFound ==
  Thrown(TRUE, TRUE, Some(<<"Request failed with status code 404">>),
         Some(<<"AxiosError: Request failed with status code 404">>),
         Response(Some(<<"404">>), Some(<<"Not Found">>)))
ServerError ==
  Thrown(TRUE, TRUE, Some(<<"Request failed with status code 500">>),
         Some(<<"AxiosError: Request failed with status code 500">>),
         Response(Some(<<"500">>), None))
Timeout ==
  Thrown(TRUE, TRUE, Some(<<"timeout of 1000ms exceeded">>),
         Some(<<"AxiosError: timeout of 1000ms exceeded">>), None)
NetworkObject ==
  Thrown(FALSE, TRUE, Some(<<"Network Error">>), Some(<<"[object Object]">>),
         None)
BareAxiosObject ==
  Thrown(FALSE, TRUE, None, Some(<<"[object Object]">>), None)
AxiosThrowables ==
  {NotFound, ServerError, Timeout, NetworkObject, BareAxiosObject}

ExistsOutcomes == {Exists(TRUE), Exists(FALSE)} \cup {Threw(t) : t \in Throwables}

\* `git rev-parse --is-inside-work-tree` prints true or false
RevParseOutcomes ==
  {Returned(<<"true">>), Returned(<<"false">>)} \cup {Threw(t) : t \in Throwables}

BranchAlphabet == {"b", "B", " ", "*", "\n"}
BranchOutcomes ==
  {Returned(s) : s \in StringsUpTo(BranchAlphabet, MaxBranchOut)}
    \cup {Threw(t) : t \in Throwables}

MergeAlphabet == {"c", " ", "\n"}
MergeBaseOutcomes ==
  {Returned(s) : s \in StringsUpTo(MergeAlphabet, MaxMergeOut)}
    \cup {Threw(t) : t \in Throwables}

DiffLines ==
  { <<>>, <<" ">>, <<"M", "\t", "f">>, <<"A", "\t", "g">>,
    <<" ", "D", "\t", "f", " ">>, <<"R", "\t", "f", "\t", "g">>,
    <<"M", "\t", "k">> }
DiffOutputs ==
  {Join(ls, "\n") : ls \in UNION {[1..k -> DiffLines] : k \in 1..MaxLines}}
DiffOutcomes ==
  {Returned(s) : s \in DiffOutputs} \cup {Threw(t) : t \in Throwables}

RemoteEntries ==
  { [filename |-> <<"f">>, status |-> <<"modified">>],
    [filename |-> <<"f">>, status |-> <<"removed">>],
    [filename |-> <<"g">>, status |-> <<"added">>],
    [filename |-> <<"h">>, status |-> <<"modified">>] }
RemoteLists == UNION {[1..k -> RemoteEntries] : k \in 0..MaxRemote}
HttpOutcomes ==
  {Resolved(Some(l)) : l \in RemoteLists} \cup {Resolved(None), NoData, NotArray}
    \cup {Threw(t) : t \in Throwables \cup AxiosThrowables}

\* ------------------------------------------------- the command line
\* the run of main(): at is where it stands, argv what parseArgs returned,
\* read and write what readFileSync and writeFileSync did, exitCode the
\* code the process ended with, stdout, stderr and file what was emitted
NoArgv ==
  [owner |-> <<>>, repo |-> <<>>, token |-> <<>>, tokenFile |-> <<>>,
   path |-> <<>>, branchA |-> <<>>, branchB |-> <<>>, output |-> "text",
   outputFile |-> <<>>]
Cli(at, argv) ==
  [at |-> at, argv |-> argv, read |-> None, write |-> None,
   exitCode |-> None, stdout |-> None, stderr |-> None, file |-> None]

\* main() is not part of a run of the detector alone
NoCli == Cli("none", NoArgv)

\* ------------------------------------------------- the calling program
\* other: None, or Some(the invocation on another detector that is not
\* running now); constructed: None, or Some(the content the config object
\* had when the detector was constructed); called: None, or Some(its
\* content when findPotentialConflicts was called); interleaved: the other
\* invocation has run while this one was pending
Caller(other, constructed) ==
  [other |-> other, constructed |-> constructed, called |-> None,
   interleaved |-> FALSE]

\* a program that makes one detector and calls it
NoCaller == Caller(None, None)

Init ==
  /\ config \in Configs
  /\ pc = "Unvalidated"
  /\ stage = "constructor"
  /\ calls = <<>>
  /\ last = <<>>
  /\ mergeBaseCommit = <<>>
  /\ localChanges = <<>>
  /\ result = None
  /\ heard = <<>>
  /\ earlier = None
  /\ cli = NoCli
  /\ caller = NoCaller

\* the promise settles: fulfilled with a result, or rejected
Settle(res) ==
  /\ pc' = IF res = None THEN "Rejected" ELSE "Done"
  /\ result' = res

\* a validation stage ended with r: throw, error string, or null
Validated(r, next) ==
  IF r.kind = "throw" THEN Settle(Caught(r.err))
  ELSE IF Truthy(r.value) THEN Settle(Some(ErrorResult(r.value[1])))
  ELSE pc' = next /\ result' = result

ValidateConfigGiven(answers) ==
  /\ pc = "Unvalidated"
  /\ \E ex \in answers :
       LET r == validateConfig(config, ex) IN
       /\ Validated(r, "ConfigValid")
       /\ calls' = calls \o r.io
       /\ last' = IF r.io = <<>> THEN <<>> ELSE <<ex>>
  /\ stage' = "validateConfig"
  /\ UNCHANGED <<config, mergeBaseCommit, localChanges>>

ValidateConfig ==
  /\ ValidateConfigGiven(ExistsOutcomes)
  /\ UNCHANGED <<heard, earlier, cli, caller>>

ValidateLocalRepositoryGiven(answersA, answersB) ==
  /\ pc = "ConfigValid"
  /\ \E rp \in answersA, br \in answersB :
       LET r == validateLocalRepository(config, rp, br) IN
       /\ Validated(r, "RepoValid")
       /\ calls' = calls \o r.io
       /\ last' = IF Len(r.io) = 1 THEN <<rp>> ELSE <<rp, br>>
  /\ stage' = "validateLocalRepository"
  /\ UNCHANGED <<config, mergeBaseCommit, localChanges>>

ValidateLocalRepository ==
  /\ ValidateLocalRepositoryGiven(RevParseOutcomes, BranchOutcomes)
  /\ UNCHANGED <<heard, earlier, cli, caller>>

\* the stage if findMergeBaseCommit stored the remote ref it compared
\* with in this.config.branchA
FindMergeBaseCommitGivenStoringRef(answers) ==
  /\ pc = "RepoValid"
  /\ \E mb \in answers :
       LET r == findMergeBaseCommit(config, mb) IN
       /\ IF r.kind = "throw"
            THEN Settle(Caught(r.err)) /\ UNCHANGED mergeBaseCommit
            ELSE /\ pc' = "MergeBaseFound"
                 /\ mergeBaseCommit' = r.value
                 /\ result' = result
       /\ calls' = calls \o r.io
       /\ last' = <<mb>>
  /\ stage' = "findMergeBaseCommit"
  /\ config' = [config EXCEPT !.branchA = <<"origin/">> \o @]
  /\ UNCHANGED localChanges

FindMergeBaseCommitGiven(answers) ==
  /\ pc = "RepoValid"
  /\ \E mb \in answers :
       LET r == findMergeBaseCommit(config, mb) IN
       /\ IF r.kind = "throw"
            THEN Settle(Caught(r.err)) /\ UNCHANGED mergeBaseCommit
            ELSE /\ pc' = "MergeBaseFound"
                 /\ mergeBaseCommit' = r.value
                 /\ result' = result
       /\ calls' = calls \o r.io
       /\ last' = <<mb>>
  /\ stage' = "findMergeBaseCommit"
  /\ UNCHANGED <<config, localChanges>>

FindMergeBaseCommit ==
  /\ FindMergeBaseCommitGiven(MergeBaseOutcomes)
  /\ UNCHANGED <<heard, earlier, cli, caller>>

GetLocalChangesGiven(answers) ==
  /\ pc = "MergeBaseFound"
  /\ \E df \in answers :
       LET r == getLocalChanges(config, mergeBaseCommit, df) IN
       /\ IF r.kind = "throw"
            THEN Settle(Caught(r.err)) /\ UNCHANGED localChanges
            ELSE /\ pc' = "LocalCollected"
                 /\ localChanges' = r.value
                 /\ result' = result
       /\ calls' = calls \o r.io
       /\ last' = <<df>>
  /\ stage' = "getLocalChanges"
  /\ UNCHANGED <<config, mergeBaseCommit>>

GetLocalChanges ==
  /\ GetLocalChangesGiven(DiffOutcomes)
  /\ UNCHANGED <<heard, earlier, cli, caller>>

\* getRemoteChanges up to the await: the request is sent
SendRemoteRequest ==
  /\ pc = "LocalCollected"
  /\ pc' = "AwaitingRemote"
  /\ calls' = Append(calls, RemoteRequest(config, mergeBaseCommit))
  /\ last' = <<>>
  /\ stage' = "getRemoteChanges"
  /\ UNCHANGED <<config, mergeBaseCommit, localChanges, result>>
  /\ UNCHANGED <<heard, earlier, cli, caller>>

\* the rest of getRemoteChanges, then findCommonChanges and the return
ReceiveRemoteResponseGiven(answers) ==
  /\ pc = "AwaitingRemote"
  /\ \E http \in answers :
       LET r == getRemoteChanges(config, mergeBaseCommit, http) IN
       /\ IF r.kind = "throw" THEN Settle(Caught(r.err))
          ELSE Settle(Some(SuccessResult(
                 findCommonChanges(localChanges, r.value), mergeBaseCommit)))
       /\ last' = <<http>>
  /\ UNCHANGED <<config, stage, calls, mergeBaseCommit, localChanges>>

ReceiveRemoteResponse ==
  /\ ReceiveRemoteResponseGiven(HttpOutcomes)
  /\ UNCHANGED <<heard, earlier, cli, caller>>

Next ==
  \/ ValidateConfig
  \/ ValidateLocalRepository
  \/ FindMergeBaseCommit
  \/ GetLocalChanges
  \/ SendRemoteRequest
  \/ ReceiveRemoteResponse

Spec == Init /\ [][Next]_vars

\* ------------------------------------------- one world, two invocations
\* a world of few answers for each external call
FewExists ==
  {Exists(TRUE), Exists(FALSE), Threw(EmptyError), Threw(NullProto)}
FewRevParses == {Returned(<<"true">>), Threw(EmptyString), Threw(FatalError)}
FewBranches ==
  {Returned(<<"*", " ", "b">>), Returned(<<"B">>), Threw(OopsString)}
FewMergeBases ==
  {Returned(<<"c", "\n">>), Returned(<<" ">>), Threw(FatalError),
   Threw(NullProto)}
FewDiffs ==
  {Returned(<<"M", "\t", "f">>),
   Returned(<<"M", "\t", "f", "\n", "A", "\t", "g">>),
   Returned(<<>>), Threw(FatalError)}
FewResponses ==
  {Resolved(Some(<<[filename |-> <<"f">>, status |-> <<"modified">>],
                   [filename |-> <<"g">>, status |-> <<"added">>]>>)),
   Resolved(Some(<<>>)), Resolved(None), Threw(NotFound),
   Threw(NetworkObject), Threw(NullProto)}

\* the promise of findPotentialConflicts has settled
Settled == pc \in {"Done", "Rejected"}

\* what the world answers to a call: what it answered to the same call in
\* the invocation before, and one of answers to a call not made before
Answer(call, answers) ==
  IF earlier # None
       /\ \E i \in 1..Len(heard) : earlier[1].calls[i] = call
    THEN {heard[CHOOSE i \in 1..Len(heard) : earlier[1].calls[i] = call]}
    ELSE answers

\* the answers of the first invocation are kept, in the order of its calls
Remember ==
  /\ heard' = IF earlier = None THEN heard \o last' ELSE heard
  /\ UNCHANGED <<earlier, cli, caller>>

ValidateConfigInWorld ==
  /\ ValidateConfigGiven(Answer(ExistsCall(config.localRepoPath), FewExists))
  /\ Remember

ValidateLocalRepositoryInWorld ==
  /\ ValidateLocalRepositoryGiven(
       Answer(ExecCall(RevParseCommand, config.localRepoPath), FewRevParses),
       Answer(ExecCall(BranchListCommand, config.localRepoPath), FewBranches))
  /\ Remember

FindMergeBaseCommitInWorld ==
  /\ FindMergeBaseCommitGiven(
       Answer(ExecCall(MergeBaseCommand(config), config.localRepoPath),
              FewMergeBases))
  /\ Remember

GetLocalChangesInWorld ==
  /\ GetLocalChangesGiven(
       Answer(ExecCall(DiffCommand(config, mergeBaseCommit),
                       config.localRepoPath), FewDiffs))
  /\ Remember

ReceiveRemoteResponseInWorld ==
  /\ ReceiveRemoteResponseGiven(
       Answer(RemoteRequest(config, mergeBaseCommit), FewResponses))
  /\ Remember

\* the locals of findPotentialConflicts are new in every invocation;
\* this.config is all that an invocation finds from the one before
Invoke ==
  /\ pc' = "Unvalidated"
  /\ calls' = <<>>
  /\ last' = <<>>
  /\ mergeBaseCommit' = <<>>
  /\ localChanges' = <<>>
  /\ result' = None
  /\ earlier' = Some([pc |-> pc, result |-> result, calls |-> calls])
  /\ UNCHANGED <<config, heard, cli, caller>>

\* findPotentialConflicts is called once more on the same detector
InvokeAgain ==
  /\ Settled /\ earlier = None /\ cli = NoCli
  /\ Invoke
  /\ stage' = "findPotentialConflicts"

\* a second detector is constructed from the same config object and
\* findPotentialConflicts is called on it
ConstructAgain ==
  /\ Settled /\ earlier = None /\ cli = NoCli
  /\ Invoke
  /\ stage' = "constructor"

TwiceNext ==
  \/ ValidateConfigInWorld
  \/ ValidateLocalRepositoryInWorld
  \/ FindMergeBaseCommitInWorld
  \/ GetLocalChangesInWorld
  \/ SendRemoteRequest
  \/ ReceiveRemoteResponseInWorld
  \/ InvokeAgain
  \/ ConstructAgain

TwiceSpec == Init /\ [][TwiceNext]_vars

\* ------------------------------------------------------- main() of cli.ts
\* what parseArgs returns: yargs has ended the process itself unless a
\* token or a token file was named; any string option may be the empty
\* string
Argvs ==
  {a \in [owner : {<<>>, <<"o">>}, repo : {<<>>, <<"r">>},
           token : {<<>>, <<"t">>}, tokenFile : {<<>>, <<"k">>},
           path : {<<>>, <<"p">>}, branchA : {<<>>, <<"a">>},
           branchB : {<<>>, <<"b">>}, output : {"json", "text"},
           outputFile : {<<>>, <<"w">>}] :
     a.token # <<>> \/ a.tokenFile # <<>>}

\* readFileSync of the token file: its content, or a throw
ReadOutcomes ==
  {Returned(<<"t", "\n">>), Returned(<<" ">>), Threw(FatalError),
   Threw(OopsString)}
\* writeFileSync of the output file: done, or a throw
WriteOutcomes == {Returned(<<>>), Threw(FatalError)}

\* JSON.stringify(files): the elements quoted and separated by commas
StringifyList(files) ==
  IF files = <<>> THEN <<"[]">>
  ELSE <<"[">>
         \o Join([i \in 1..Len(files) |-> <<"\"">> \o files[i] \o <<"\"">>],
                 ",")
         \o <<"]">>

\* JSON.stringify(result, null, 2) without its line breaks and indentation:
\* the properties of the result in the order they were written, a
\* property that is undefined left out
Stringify(res) ==
  <<"{", "\"potentialConflicts\": ">> \o StringifyList(res.potentialConflicts)
    \o <<",", "\"mergeBaseCommit\": ", "\"">> \o res.mergeBaseCommit
    \o <<"\"">>
    \o (IF res.error = None THEN <<>>
         ELSE <<",", "\"error\": ", "\"">> \o res.error[1] \o <<"\"">>)
    \o <<"}">>

\* the text report (lines 106-116)
TextOutput(res) ==
  <<"Merge base commit: ">> \o res.mergeBaseCommit
    \o <<"\n", "Found ", ToString(Len(res.potentialConflicts)),
          " potential conflicts:\n">>
    \o (IF Len(res.potentialConflicts) > 0
         THEN Join([i \in 1..Len(res.potentialConflicts) |->
                      <<"- ">> \o res.potentialConflicts[i] \o <<"\n">>],
                   "")
         ELSE <<"No potential conflicts found.\n">>)

CliInit ==
  /\ cli \in {Cli("start", a) : a \in Argvs}
  /\ config = [owner |-> <<>>, repo |-> <<>>, accessToken |-> <<>>,
               localRepoPath |-> <<>>, branchA |-> <<>>, branchB |-> <<>>]
  /\ pc = "NoDetector"
  /\ stage = "main"
  /\ calls = <<>>
  /\ last = <<>>
  /\ mergeBaseCommit = <<>>
  /\ localChanges = <<>>
  /\ result = None
  /\ heard = <<>>
  /\ earlier = None
  /\ caller = NoCaller

\* process.exit(code), or the return of main() for code 0
Exit(c, code) == [c EXCEPT !.at = "exited", !.exitCode = Some(code)]

\* new GitConflictDetector({...}) and the call of findPotentialConflicts
\* (lines 84-95)
Construct(accessToken) ==
  /\ config' = [owner |-> cli.argv.owner, repo |-> cli.argv.repo,
                accessToken |-> accessToken,
                localRepoPath |-> cli.argv.path,
                branchA |-> cli.argv.branchA, branchB |-> cli.argv.branchB]
  /\ pc' = "Unvalidated"
  /\ stage' = "constructor"

\* main() up to the await (lines 69-95)
MainStart ==
  /\ cli.at = "start"
  /\ IF cli.argv.tokenFile # <<>>
       THEN \E rd \in ReadOutcomes :
              IF rd.kind = "throw"
                THEN /\ cli' = [Exit(cli, 1) EXCEPT
                                 !.read = Some(rd),
                                 !.stderr =
                                   Some(<<"Error reading token file", ": ">>
                                          \o Template(rd.err.message))]
                     /\ UNCHANGED <<config, pc, stage>>
                ELSE /\ cli' = [cli EXCEPT !.at = "awaiting",
                                           !.read = Some(rd)]
                     /\ Construct(Trim(rd.out))
       ELSE /\ cli' = [cli EXCEPT !.at = "awaiting"]
            /\ Construct(cli.argv.token)
  /\ UNCHANGED <<calls, last, mergeBaseCommit, localChanges, result, heard,
                 earlier, caller>>

\* the catch block of main() (lines 125-128)
Unexpected(c) == [Exit(c, 1) EXCEPT !.stderr = Some(<<"Unexpected error:">>)]

\* main() after the await (lines 95-128)
MainReport ==
  /\ cli.at = "awaiting"
  /\ Settled
  /\ IF pc = "Rejected" THEN cli' = Unexpected(cli)
     ELSE IF Truthy(result[1].error)
       THEN cli' = [Exit(cli, 1) EXCEPT
                      !.stderr = Some(<<"Error", ": ">> \o result[1].error[1])]
     ELSE
       LET output == IF cli.argv.output = "json" THEN Stringify(result[1])
                     ELSE TextOutput(result[1]) IN
       IF cli.argv.outputFile # <<>>
         THEN \E wr \in WriteOutcomes :
                IF wr.kind = "throw"
                  THEN cli' = [Unexpected(cli) EXCEPT !.write = Some(wr)]
                  ELSE cli' = [Exit(cli, 0) EXCEPT
                                 !.write = Some(wr),
                                 !.file = Some(output),
                                 !.stdout = Some(<<"Output written to ">>
                                                   \o cli.argv.outputFile)]
         ELSE cli' = [Exit(cli, 0) EXCEPT !.stdout = Some(output)]
  /\ UNCHANGED <<config, pc, stage, calls, last, mergeBaseCommit,
                 localChanges, result, heard, earlier, caller>>

CliNext ==
  \/ MainStart
  \/ ValidateConfigInWorld
  \/ ValidateLocalRepositoryInWorld
  \/ FindMergeBaseCommitInWorld
  \/ GetLocalChangesInWorld
  \/ SendRemoteRequest
  \/ ReceiveRemoteResponseInWorld
  \/ MainReport

CliSpec == CliInit /\ [][CliNext]_vars

\* --------------------------------------------- one invocation by itself
\* the i-th answer of h (a placeholder where the run asks for none)
Nth(h, i) == IF i <= Len(h) THEN h[i] ELSE NoData

Ended(res, io) == [result |-> res, io |-> io]

\* findPotentialConflicts from its first line to its last on a detector
\* whose config is cfg, the external calls answered by h in order: the
\* result the promise settles with (None: it rejects) and the calls made
RunAlone(cfg, h) ==
  LET v == validateConfig(cfg, Nth(h, 1)) IN
  IF v.kind = "throw" THEN Ended(Caught(v.err), v.io)
  ELSE IF Truthy(v.value) THEN Ended(Some(ErrorResult(v.value[1])), v.io)
  ELSE
    LET w == validateLocalRepository(cfg, Nth(h, 2), Nth(h, 3))
        n == 1 + Len(w.io)
    IN
    IF w.kind = "throw" THEN Ended(Caught(w.err), v.io \o w.io)
    ELSE IF Truthy(w.value)
      THEN Ended(Some(ErrorResult(w.value[1])), v.io \o w.io)
    ELSE
      LET m == findMergeBaseCommit(cfg, Nth(h, n + 1)) IN
      IF m.kind = "throw" THEN Ended(Caught(m.err), v.io \o w.io \o m.io)
      ELSE
        LET l == getLocalChanges(cfg, m.value, Nth(h, n + 2)) IN
        IF l.kind = "throw"
          THEN Ended(Caught(l.err), v.io \o w.io \o m.io \o l.io)
        ELSE
          LET r == getRemoteChanges(cfg, m.value, Nth(h, n + 3))
              io == v.io \o w.io \o m.io \o l.io \o r.io
          IN IF r.kind = "throw" THEN Ended(Caught(r.err), io)
             ELSE Ended(Some(SuccessResult(
                         findCommonChanges(l.value, r.value), m.value)), io)

\* ------------------------------------------------- two detectors at once
\* two configurations with nothing in common, and one without a token
ConcurrentConfigs ==
  { [owner |-> <<"o">>, repo |-> <<"r">>, accessToken |-> <<"t">>,
     localRepoPath |-> <<"p">>, branchA |-> <<"a">>, branchB |-> <<"b">>],
    [owner |-> <<"O">>, repo |-> <<"R">>, accessToken |-> <<"T">>,
     localRepoPath |-> <<"P">>, branchA |-> <<"A">>, branchB |-> <<"B">>],
    [owner |-> <<"o">>, repo |-> <<"r">>, accessToken |-> <<>>,
     localRepoPath |-> <<"p">>, branchA |-> <<"a">>, branchB |-> <<"b">>] }

\* an invocation as it stands: the detector's config and the locals of
\* its findPotentialConflicts
Invocation(c, p, s, io, l, m, lc, r, h) ==
  [config |-> c, pc |-> p, stage |-> s, calls |-> io, last |-> l,
   mergeBaseCommit |-> m, localChanges |-> lc, result |-> r, heard |-> h]

\* a detector just constructed
Constructed(c) ==
  Invocation(c, "Unvalidated", "constructor", <<>>, <<>>, <<>>, <<>>, None,
             <<>>)

ConcurrentInit ==
  /\ config \in ConcurrentConfigs
  /\ pc = "Unvalidated"
  /\ stage = "constructor"
  /\ calls = <<>>
  /\ last = <<>>
  /\ mergeBaseCommit = <<>>
  /\ localChanges = <<>>
  /\ result = None
  /\ heard = <<>>
  /\ earlier = None
  /\ cli = NoCli
  /\ caller \in {Caller(Some(Constructed(c)), None) :
                    c \in ConcurrentConfigs \ {config}}

\* the event loop with both invocations keeping their locals in the same
\* variables of the module: mergeBaseCommit and localChanges stay as the
\* invocation that ran last left them
ResumeOtherSharingLocals ==
  /\ caller.other # None
  /\ pc \in {"Unvalidated", "AwaitingRemote", "Done", "Rejected"}
  /\ caller.other[1].pc \in {"Unvalidated", "AwaitingRemote"}
  /\ config' = caller.other[1].config
  /\ pc' = caller.other[1].pc
  /\ stage' = caller.other[1].stage
  /\ calls' = caller.other[1].calls
  /\ last' = caller.other[1].last
  /\ result' = caller.other[1].result
  /\ heard' = caller.other[1].heard
  /\ caller' = [caller EXCEPT
                  !.other = Some(Invocation(config, pc, stage, calls, last,
                                            mergeBaseCommit, localChanges,
                                            result, heard)),
                  !.interleaved = @ \/ pc = "AwaitingRemote"]
  /\ UNCHANGED <<mergeBaseCommit, localChanges, earlier, cli>>

\* the event loop: this invocation has not begun, is suspended at the
\* await or is over, and the other one begins or gets its response
ResumeOther ==
  /\ caller.other # None
  /\ pc \in {"Unvalidated", "AwaitingRemote", "Done", "Rejected"}
  /\ caller.other[1].pc \in {"Unvalidated", "AwaitingRemote"}
  /\ config' = caller.other[1].config
  /\ pc' = caller.other[1].pc
  /\ stage' = caller.other[1].stage
  /\ calls' = caller.other[1].calls
  /\ last' = caller.other[1].last
  /\ mergeBaseCommit' = caller.other[1].mergeBaseCommit
  /\ localChanges' = caller.other[1].localChanges
  /\ result' = caller.other[1].result
  /\ heard' = caller.other[1].heard
  /\ caller' = [caller EXCEPT
                  !.other = Some(Invocation(config, pc, stage, calls, last,
                                            mergeBaseCommit, localChanges,
                                            result, heard)),
                  !.interleaved = @ \/ pc = "AwaitingRemote"]
  /\ UNCHANGED <<earlier, cli>>

ConcurrentNext ==
  \/ ValidateConfigInWorld
  \/ ValidateLocalRepositoryInWorld
  \/ FindMergeBaseCommitInWorld
  \/ GetLocalChangesInWorld
  \/ SendRemoteRequest
  \/ ReceiveRemoteResponseInWorld
  \/ ResumeOther

ConcurrentSpec == ConcurrentInit /\ [][ConcurrentNext]_vars

\* ------------------------------------- a caller that changes the config
\* contents the caller gives the config object: complete, with another
\* remote branch, without the owner
MutableConfigs ==
  { [owner |-> <<"o">>, repo |-> <<"r">>, accessToken |-> <<"t">>,
     localRepoPath |-> <<"p">>, branchA |-> <<"a">>, branchB |-> <<"b">>],
    [owner |-> <<"o">>, repo |-> <<"r">>, accessToken |-> <<"t">>,
     localRepoPath |-> <<"p">>, branchA |-> <<"A">>, branchB |-> <<"b">>],
    [owner |-> <<>>, repo |-> <<"r">>, accessToken |-> <<"t">>,
     localRepoPath |-> <<"p">>, branchA |-> <<"a">>, branchB |-> <<"b">>] }

\* this.config = config: the detector holds the caller's object
MutableInit ==
  /\ config \in MutableConfigs
  /\ pc = "Unvalidated"
  /\ stage = "constructor"
  /\ calls = <<>>
  /\ last = <<>>
  /\ mergeBaseCommit = <<>>
  /\ localChanges = <<>>
  /\ result = None
  /\ heard = <<>>
  /\ earlier = None
  /\ cli = NoCli
  /\ caller = Caller(None, Some(config))

\* the caller writes to the object while no code of the detector runs:
\* before a call, while the HTTP request is pending, after the result
CallerMutatesConfig ==
  /\ caller.constructed # None
  /\ pc \in {"Unvalidated", "AwaitingRemote", "Done", "Rejected"}
  /\ \E c \in MutableConfigs \ {config} : config' = c
  /\ UNCHANGED <<pc, stage, calls, last, mergeBaseCommit, localChanges,
                 result, heard, earlier, cli, caller>>

\* the call of findPotentialConflicts and its first stage
CallFindPotentialConflicts ==
  /\ caller.constructed # None
  /\ ValidateConfigGiven(FewExists)
  /\ heard' = heard \o last'
  /\ caller' = [caller EXCEPT !.called = Some(config)]
  /\ UNCHANGED <<earlier, cli>>

\* the caller has the result and is about to call once more
CallAgain ==
  /\ caller.constructed # None
  /\ Settled
  /\ pc' = "Unvalidated"
  /\ stage' = "findPotentialConflicts"
  /\ calls' = <<>>
  /\ last' = <<>>
  /\ mergeBaseCommit' = <<>>
  /\ localChanges' = <<>>
  /\ result' = None
  /\ heard' = <<>>
  /\ caller' = [caller EXCEPT !.called = None]
  /\ UNCHANGED <<config, earlier, cli>>

MutableNext ==
  \/ CallerMutatesConfig
  \/ CallFindPotentialConflicts
  \/ ValidateLocalRepositoryInWorld
  \/ FindMergeBaseCommitInWorld
  \/ GetLocalChangesInWorld
  \/ SendRemoteRequest
  \/ ReceiveRemoteResponseInWorld
  \/ CallAgain

MutableSpec == MutableInit /\ [][MutableNext]_vars

\* ------------------------------------------------------------ properties
Fulfilled == pc = "Done"
Failed == pc = "Done" /\ result[1].error # None
Succeeded == pc = "Done" /\ result[1].error = None

IsGitCall(c) == c.api = "execSync"
IsHttpCall(c) == c.api = "axios.get"
IsMergeBaseCall(c) == IsGitCall(c) /\ c.arg[2] = "merge-base "
IsDiffCall(c) == IsGitCall(c) /\ c.arg[2] = "diff --name-status "
NoneOfCalls(P(_)) == \A i \in 1..Len(calls) : ~P(calls[i])

Blank(s) == \A i \in 1..Len(s) : s[i] \in WhiteSpace

AllFieldsPresent ==
  /\ config.owner # <<>> /\ config.repo # <<>> /\ config.accessToken # <<>>
  /\ config.localRepoPath # <<>> /\ config.branchA # <<>>
  /\ config.branchB # <<>>

\* C1 (as claimed): findPotentialConflicts never rejects, and whenever an
\* external call of the stage that just ran threw, the promise is resolved
\* to a result whose error is set.
C1_NeverRejectsErrorPopulated ==
  /\ pc # "Rejected"
  /\ (\E i \in 1..Len(last) : last[i].kind = "throw")
       => Fulfilled /\ result[1].error # None

\* C2: every result that has error set has an empty conflict list and an
\* empty merge-base commit, whichever stage failed.
C2_ErrorResultIsEmpty ==
  Failed => /\ result[1].potentialConflicts = <<>>
            /\ result[1].mergeBaseCommit = <<>>

\* a failure after the merge base was resolved and the local diff parsed
C2_Witness ==
  /\ Failed
  /\ stage = "getRemoteChanges"
  /\ mergeBaseCommit # <<>>
  /\ localChanges # <<>>

RequiredFields ==
  <<"owner", "repo", "accessToken", "localRepoPath", "branchA", "branchB">>
RequiredMessages ==
  <<"Owner is required", "Repository name is required",
    "Access token is required", "Local repository path is required",
    "Branch A name is required", "Branch B name is required">>
Missing(k) == config[RequiredFields[k]] = <<>>

\* C3: the error is the fixed message of the first failing check in the
\* order owner, repo, accessToken, localRepoPath, branchA, branchB, path
\* existence; a missing field wins over every later one and over the path.
C3_FirstFailingCheckReported ==
  pc # "Unvalidated" =>
    /\ \A k \in 1..6 :
         (Missing(k) /\ \A j \in 1..(k - 1) : ~Missing(j))
           => Failed /\ result[1].error = Some(<<RequiredMessages[k]>>)
    /\ (AllFieldsPresent /\ stage = "validateConfig" /\ last = <<Exists(FALSE)>>)
         => /\ Failed
            /\ result[1].error =
                 Some(<<"Local repository path does not exist: ">>
                      \o config.localRepoPath)

\* owner and repo both missing: only the owner is reported
C3_Witness ==
  /\ Failed
  /\ config.owner = <<>> /\ config.repo = <<>> /\ config.localRepoPath = <<>>
  /\ result[1].error = Some(<<"Owner is required">>)

ValidationFailed ==
  \/ \E k \in 1..6 : Missing(k)
  \/ stage = "validateConfig" /\ last = <<Exists(FALSE)>>

\* C4: when validation fails no git command and no HTTP request is issued,
\* and fs.existsSync is asked only when all six fields are non-empty.
C4_NoExternalCallAfterFailedValidation ==
  /\ (pc # "Unvalidated" /\ ValidationFailed)
       => Failed /\ NoneOfCalls(IsGitCall) /\ NoneOfCalls(IsHttpCall)
  /\ (\E i \in 1..Len(calls) : calls[i].api = "fs.existsSync")
       => AllFieldsPresent

\* the path does not exist: the existence check is the only call made
C4_Witness ==
  /\ Failed
  /\ stage = "validateConfig"
  /\ last = <<Exists(FALSE)>>
  /\ calls = <<ExistsCall(config.localRepoPath)>>

\* s is t with whitespace added at the ends, and t has none at its ends
TrimmedFrom(t, s) ==
  /\ t # <<>>
  /\ Head(t) \notin WhiteSpace /\ t[Len(t)] \notin WhiteSpace
  /\ \E i \in 1..Len(s) :
       /\ i + Len(t) - 1 <= Len(s)
       /\ SubSeq(s, i, i + Len(t) - 1) = t
       /\ Blank(SubSeq(s, 1, i - 1))
       /\ Blank(SubSeq(s, i + Len(t), Len(s)))

C5_State ==
  /\ (stage = "findMergeBaseCommit" /\ pc = "MergeBaseFound")
       => /\ last[1].kind = "return"
          /\ TrimmedFrom(mergeBaseCommit, last[1].out)
  /\ Cardinality({i \in 1..Len(calls) : IsMergeBaseCall(calls[i])}) <= 1
  /\ \A i \in 1..Len(calls) :
       /\ IsDiffCall(calls[i])
            => /\ mergeBaseCommit # <<>>
               /\ calls[i].arg = <<"git ", "diff --name-status ">>
                    \o mergeBaseCommit \o <<" ">> \o config.branchB
       /\ IsHttpCall(calls[i])
            => /\ mergeBaseCommit # <<>>
               /\ calls[i].arg =
                    <<"https://api.github.com/repos/">> \o config.owner
                      \o <<"/">> \o config.repo \o <<"/compare/">>
                      \o mergeBaseCommit \o <<"...">> \o config.branchA
  /\ Succeeded
       => /\ mergeBaseCommit # <<>>
          /\ result[1].mergeBaseCommit = mergeBaseCommit

\* C5: the identifier in the diff command, the one in the compare URL and
\* the mergeBaseCommit of a successful result are one value, the trimmed
\* non-blank output of the single merge-base command; it is never empty
\* and never replaced once resolved.
C5_SameMergeBaseEverywhere ==
  /\ []C5_State
  /\ [][mergeBaseCommit # <<>> => mergeBaseCommit' = mergeBaseCommit]_vars

\* a successful run that issued the diff command and the HTTP request
C5_Witness ==
  /\ Succeeded
  /\ result[1].mergeBaseCommit = <<"c">>
  /\ \E i \in 1..Len(calls) : IsDiffCall(calls[i])
  /\ \E i \in 1..Len(calls) : IsHttpCall(calls[i])

\* C6: blank output of the merge-base command ends the invocation with an
\* error containing 'Failed to find merge base'; neither the diff command
\* nor the HTTP request is issued.
C6_BlankMergeBaseFails ==
  (stage = "findMergeBaseCommit" /\ last[1].kind = "return"
     /\ Blank(last[1].out))
    => /\ Failed
       /\ Contains(result[1].error[1], <<"Failed to find merge base">>)
       /\ NoneOfCalls(IsDiffCall) /\ NoneOfCalls(IsHttpCall)

\* the command printed whitespace only
C6_Witness ==
  /\ stage = "findMergeBaseCommit"
  /\ last = <<Returned(<<" ", "\n">>)>>
  /\ Failed

\* the files the response of the last stage listed (none if absent)
RemoteFiles ==
  IF last[1].body.files = None THEN <<>> ELSE last[1].body.files[1]
RemotePaths == [i \in 1..Len(RemoteFiles) |-> RemoteFiles[i].filename]
LocalPaths == {localChanges[i].filename : i \in 1..Len(localChanges)}
InLocal(path) == path \in LocalPaths

\* C7: on success potentialConflicts is the remote list's paths that also
\* occur in the local list, in remote order, repeated occurrences kept;
\* it is empty, with no error, when the two path sets are disjoint.
C7_ConflictsAreRemotePathsInLocal ==
  Succeeded =>
    /\ result[1].potentialConflicts = SelectSeq(RemotePaths, InLocal)
    /\ (\A i \in 1..Len(RemotePaths) : RemotePaths[i] \notin LocalPaths)
         => result[1].potentialConflicts = <<>>

\* local order f, g; remote order g, f, f: remote order and the repeated
\* path are both kept
C7_Witness ==
  /\ Succeeded
  /\ Len(localChanges) = 2
  /\ localChanges[1].filename = <<"f">> /\ localChanges[2].filename = <<"g">>
  /\ RemotePaths = << <<"g">>, <<"f">>, <<"f">> >>
  /\ result[1].potentialConflicts = << <<"g">>, <<"f">>, <<"f">> >>

\* C8 (as claimed): when rev-parse --is-inside-work-tree does not confirm
\* a working tree (it throws, or prints something other than true) the
\* invocation ends with an error and no merge-base, diff or HTTP call.
C8_WorkTreeMustBeConfirmed ==
  (stage = "validateLocalRepository"
     /\ (last[1].kind = "throw" \/ last[1].out # <<"true">>))
    => /\ Failed
       /\ result[1].error[1] # <<>>
       /\ NoneOfCalls(IsMergeBaseCall) /\ NoneOfCalls(IsDiffCall)
       /\ NoneOfCalls(IsHttpCall)

\* out[i..j] is a whole line of out (i = j + 1: an empty line)
IsLine(out, i, j) ==
  /\ i = 1 \/ out[i - 1] = "\n"
  /\ j = Len(out) \/ out[j + 1] = "\n"
  /\ \A k \in i..j : out[k] # "\n"

\* line is name with blanks around it and at most one '*' before it
Names(line, name) ==
  \E s \in 1..Len(line) :
    /\ s + Len(name) - 1 <= Len(line)
    /\ SubSeq(line, s, s + Len(name) - 1) = name
    /\ \A k \in (s + Len(name))..Len(line) : line[k] \in WhiteSpace
    /\ \A k \in 1..(s - 1) : line[k] \in WhiteSpace \cup {"*"}
    /\ Cardinality({k \in 1..(s - 1) : line[k] = "*"}) <= 1

Listed(out, name) ==
  \E i \in 1..(Len(out) + 1), j \in 0..Len(out) :
    /\ i <= j + 1
    /\ IsLine(out, i, j)
    /\ Names(SubSeq(out, i, j), name)

\* C9: branch B is accepted iff some line of the `branch --list` output
\* names it exactly once blanks and a leading '*' marker are removed;
\* otherwise the error contains "Branch '<branchB>' does not exist
\* locally" and no later stage runs.
C9_BranchAcceptedIffListed ==
  (stage = "validateLocalRepository" /\ Len(last) = 2
     /\ last[2].kind = "return")
    => /\ (pc = "RepoValid") <=> Listed(last[2].out, config.branchB)
       /\ ~Listed(last[2].out, config.branchB)
            => /\ Failed
               /\ Contains(result[1].error[1],
                    <<"Branch '">> \o config.branchB
                      \o <<"' does not exist locally">>)
               /\ Len(calls) = 3

\* the branch is the checked-out one, marked with '*'
C9_Witness ==
  /\ stage = "validateLocalRepository"
  /\ last = <<Returned(<<"true">>), Returned(<<"B", "\n", "*", "b">>)>>
  /\ pc = "RepoValid"

\* C10 (as claimed): a structured service error without response gives an
\* error containing 'GitHub API error (Unknown): <message>'.
C10_UnknownStatusMarker ==
  (stage = "getRemoteChanges" /\ last # <<>> /\ last[1].kind = "throw"
     /\ last[1].err.isAxiosError /\ last[1].err.response = None
     /\ last[1].err.message # None)
    => /\ Failed
       /\ Contains(result[1].error[1],
            <<"GitHub API error", " (", "Unknown", "): ">>
              \o last[1].err.message[1])


\* the value axios.get rejected with in the remote stage, when it did
RemoteFault == last[1].err
RemoteRejected ==
  stage = "getRemoteChanges" /\ last # <<>> /\ last[1].kind = "throw"

\* C11: a structured service error with HTTP status S and service message
\* M gives exactly 'GitHub API error (S): M'; the service message is used
\* even when the fault has a message of its own.
C11_StatusAndServiceMessage ==
  (RemoteRejected /\ RemoteFault.isAxiosError /\ RemoteFault.response # None
     /\ RemoteFault.response[1].status # None
     /\ Truthy(RemoteFault.response[1].dataMessage))
    => /\ Failed
       /\ result[1].error =
            Some(<<"GitHub API error", " (">>
                   \o RemoteFault.response[1].status[1] \o <<"): ">>
                   \o RemoteFault.response[1].dataMessage[1])

\* status 404 with 'Not Found', the fault itself saying 'Request failed
\* with status code 404'
C11_Witness ==
  /\ last = <<Threw(NotFound)>>
  /\ Failed
  /\ result[1].error =
       Some(<<"GitHub API error", " (", "404", "): ", "Not Found">>)

\* C12: a successful response without a files array, or with an empty one,
\* is an empty remote list: the invocation succeeds with no conflicts,
\* whatever the local change list holds.
C12_MissingFilesIsEmptyList ==
  (pc = "Done" /\ stage = "getRemoteChanges" /\ last[1].kind = "return"
     /\ last[1].body.hasData /\ last[1].body.isArray
     /\ (last[1].body.files # None => Len(last[1].body.files[1]) = 0))
    => Succeeded /\ result[1].potentialConflicts = <<>>

\* data is {} and the local list is not empty
C12_Witness ==
  /\ last = <<Resolved(None)>>
  /\ localChanges # <<>>
  /\ Succeeded


\* the local stage returned: the diff command printed DiffOutput
LocalParsed == stage = "getLocalChanges" /\ last[1].kind = "return"
DiffOutput == last[1].out

\* where the non-blank lines of out start, and where the line at i ends
LineStarts(out) ==
  {i \in 1..Len(out) :
     \E j \in i..Len(out) :
       IsLine(out, i, j) /\ ~Blank(SubSeq(out, i, j))}
LineEnd(out, i) == CHOOSE j \in i..Len(out) : IsLine(out, i, j)
Ascending(S) ==
  CHOOSE f \in [1..Cardinality(S) -> S] :
    \A a, b \in 1..Cardinality(S) : a < b => f[a] < f[b]
NonBlankLines(out) ==
  LET starts == Ascending(LineStarts(out)) IN
  [k \in 1..Len(starts) |-> SubSeq(out, starts[k], LineEnd(out, starts[k]))]

\* e has as kind the text before the first tab of the line (surrounding
\* whitespace of the line aside) and as path all the text after that tab
EntryOf(e, line) ==
  \E a, b \in 1..Len(line) :
    LET t == SubSeq(line, a, b) IN
    /\ TrimmedFrom(t, line)
    /\ \/ /\ \A q \in 1..Len(t) : t[q] # "\t"
          /\ e.status = t /\ e.filename = <<>>
       \/ \E p \in 1..Len(t) :
            /\ t[p] = "\t" /\ \A q \in 1..(p - 1) : t[q] # "\t"
            /\ e.status = SubSeq(t, 1, p - 1)
            /\ e.filename = SubSeq(t, p + 1, Len(t))

HasKind(e) == e.status # <<>>

\* C13: every non-blank diff line becomes exactly one entry, its kind the
\* text before the first tab and its path everything after the first tab,
\* later tabs kept inside the path; the entries come in line order.
C13_OneEntryPerLineSplitAtFirstTab ==
  LocalParsed =>
    LET lines == NonBlankLines(DiffOutput)
        entries == SelectSeq(localChanges, HasKind)
    IN /\ Len(entries) = Len(lines)
       /\ \A k \in 1..Len(lines) : EntryOf(entries[k], lines[k])

\* a line with three fields after a line with two
C13_Witness ==
  /\ LocalParsed
  /\ DiffOutput = <<"M", "\t", "k", "\n", "R", "\t", "f", "\t", "g">>
  /\ localChanges =
       << [filename |-> <<"k">>, status |-> <<"M">>],
          [filename |-> <<"f", "\t", "g">>, status |-> <<"R">>] >>

\* C14 (as claimed): the number of entries equals the number of non-blank
\* lines; a line that is empty or only whitespace gives no entry.
C14_BlankLinesDropped ==
  LocalParsed =>
    /\ Len(localChanges) = Cardinality(LineStarts(DiffOutput))
    /\ \A k \in 1..Len(localChanges) : HasKind(localChanges[k])


\* the four read-only command lines of the external interface
ReadOnlyCommands ==
  { <<"git ", "rev-parse --is-inside-work-tree">>,
    <<"git ", "branch --list">>,
    <<"git ", "merge-base ", "origin/">> \o config.branchA \o <<" ">>
      \o config.branchB,
    <<"git ", "diff --name-status ">> \o mergeBaseCommit \o <<" ">>
      \o config.branchB }

\* C16: every git command issued is one of the four read-only shapes and
\* runs with the configured local path as working directory.
C16_OnlyReadOnlyCommandsInRepoPath ==
  \A i \in 1..Len(calls) :
    IsGitCall(calls[i])
      => /\ calls[i].arg \in ReadOnlyCommands
         /\ calls[i].opt = config.localRepoPath

\* a run that issued all four commands
C16_Witness ==
  /\ Cardinality({i \in 1..Len(calls) : IsGitCall(calls[i])}) = 4
  /\ \E i \in 1..Len(calls) : IsDiffCall(calls[i])
  /\ pc = "Done"


\* C18 (as claimed): a successful invocation made exactly these six
\* external calls, once each, in this order; the HTTP request is the last
\* one and follows the local diff.
C18_SixCallsInOrder ==
  Succeeded =>
    calls =
      << ExistsCall(config.localRepoPath),
         ExecCall(<<"rev-parse --is-inside-work-tree">>, config.localRepoPath),
         ExecCall(<<"branch --list">>, config.localRepoPath),
         ExecCall(<<"merge-base ", "origin/">> \o config.branchA \o <<" ">>
                    \o config.branchB, config.localRepoPath),
         ExecCall(<<"diff --name-status ">> \o mergeBaseCommit \o <<" ">>
                    \o config.branchB, config.localRepoPath),
         GetCall(<<"https://api.github.com/repos/">> \o config.owner
                   \o <<"/">> \o config.repo \o <<"/compare/">>
                   \o mergeBaseCommit \o <<"...">> \o config.branchA,
                 config.accessToken) >>

\* C19 (as claimed): no external call is issued twice, and once an
\* external call of a stage has failed the invocation is over, so that no
\* further call follows.
C19_FailureIsTerminal ==
  /\ \A i, j \in 1..Len(calls) : i # j => calls[i] # calls[j]
  /\ (\E i \in 1..Len(last) : last[i].kind = "throw") => Settled

Stages ==
  <<"Unvalidated", "ConfigValid", "RepoValid", "MergeBaseFound",
    "LocalCollected", "AwaitingRemote">>
Rank(p) ==
  IF \E k \in 1..Len(Stages) : Stages[k] = p
    THEN CHOOSE k \in 1..Len(Stages) : Stages[k] = p
    ELSE Len(Stages) + 1

C20_Step ==
  /\ Rank(pc') > Rank(pc)
  /\ Rank(pc') <= Len(Stages) => Rank(pc') = Rank(pc) + 1
  /\ (pc' = "Done" /\ result'[1].error = None) => pc = "AwaitingRemote"
  /\ Rank(pc') > Len(Stages) => pc' = "Done"

\* C20 (as claimed): the stage only moves forward, one stage at a time or
\* to the end; success is entered only from the last stage; and an
\* invocation that ends, ends in Done(success) or Done(error).
C20_ForwardOnlyEndsInDone == [][C20_Step]_vars


\* C15: a second invocation, on the same detector or on one constructed
\* from the same config, that gets the same answer to every call the
\* first one made, issues the same calls and settles the same way with
\* the same result.
C15_SameAnswersSameResult ==
  (earlier # None /\ Settled) =>
    /\ calls = earlier[1].calls
    /\ pc = earlier[1].pc
    /\ result = earlier[1].result

C15_Witness ==
  /\ earlier # None
  /\ Succeeded
  /\ result[1].potentialConflicts # <<>>
  /\ stage = "getRemoteChanges"


Exited == cli.at = "exited"
TokenFileUnreadable == cli.read # None /\ cli.read[1].kind = "throw"
UnexpectedFault ==
  \/ pc = "Rejected"
  \/ cli.write # None /\ cli.write[1].kind = "throw"
CarriesError == pc = "Done" /\ result[1].error # None
Emitted == IF cli.file # None THEN cli.file[1] ELSE cli.stdout[1]

\* C17 (as claimed): the process exits with 1 when the token file could
\* not be read, when an unexpected fault occurred or when the result of
\* the detector has the error property, and with 0 otherwise; in JSON
\* mode the document emitted holds potentialConflicts and mergeBaseCommit
\* of the result and no error property.
C17_ExitCodeAndJsonDocument ==
  Exited =>
    /\ cli.exitCode =
         Some(IF TokenFileUnreadable \/ UnexpectedFault \/ CarriesError
                THEN 1 ELSE 0)
    /\ (cli.exitCode = Some(0) /\ cli.argv.output = "json") =>
         Emitted =
           <<"{", "\"potentialConflicts\": ">>
             \o StringifyList(result[1].potentialConflicts)
             \o <<",", "\"mergeBaseCommit\": ", "\"">>
             \o result[1].mergeBaseCommit \o <<"\"", "}">>


MergeBaseStageFailed ==
  /\ stage = "findMergeBaseCommit"
  /\ last[1].kind = "throw" \/ Blank(last[1].out)

\* C21 (as claimed): whenever the merge-base command throws, whatever the
\* value thrown, or prints blank output, the invocation ends with a result
\* whose error starts with 'Failed to find merge base: '.
C21_MergeBaseFailurePrefixed ==
  MergeBaseStageFailed =>
    /\ Failed
    /\ StartsWith(result[1].error[1], <<"Failed to find merge base", ": ">>)

\* the request failed, or the body of the response could not be read
RemoteStageFailed ==
  /\ stage = "getRemoteChanges" /\ last # <<>>
  /\ \/ last[1].kind = "throw"
     \/ ~last[1].body.hasData
     \/ last[1].body.files # None /\ ~last[1].body.isArray
\* the fault is an answer of the service: it carries a status code
StructuredServiceError ==
  /\ last[1].kind = "throw" /\ RemoteFault.isAxiosError
  /\ RemoteFault.response # None /\ RemoteFault.response[1].status # None

\* C22 (as claimed): a failed remote stage ends with an error that starts
\* with 'GitHub API error (' when the fault is a structured service error
\* and with 'Failed to get remote changes: ' for every other fault.
C22_RemoteFailureModesDistinct ==
  RemoteStageFailed =>
    /\ Failed
    /\ IF StructuredServiceError
         THEN StartsWith(result[1].error[1], <<"GitHub API error", " (">>)
         ELSE StartsWith(result[1].error[1],
                         <<"Failed to get remote changes", ": ">>)

RepoCommandFailed ==
  /\ stage = "validateLocalRepository"
  /\ \E i \in 1..Len(last) : last[i].kind = "throw"
\* the text of the value the failed command threw
FailureText ==
  LET t == last[Len(last)].err IN
  IF t.isError THEN t.message[1] ELSE IF t.str = None THEN <<>> ELSE t.str[1]

\* C23 (as claimed): when a command of validateLocalRepository throws, the
\* invocation ends with a result whose error names the repository path
\* after 'Invalid git repository at', contains 'Git command failed' and
\* contains the text of the failure.
C23_RepoFailureWrapped ==
  RepoCommandFailed =>
    /\ Failed
    /\ Contains(result[1].error[1],
                <<"Invalid git repository", " at ">> \o config.localRepoPath)
    /\ Contains(result[1].error[1], <<"Git command failed">>)
    /\ Contains(result[1].error[1], FailureText)


LocalKinds == {<<"D">>}
RemoteKinds == {<<"removed">>, <<"added">>}
\* the same paths in the same order, every kind replaced by kind
WithKind(changes, kind) ==
  [i \in 1..Len(changes) |->
     [filename |-> changes[i].filename, status |-> kind]]

\* C25: potentialConflicts depends on the paths of the two lists only: it
\* is what the lists give with every local kind replaced by D and every
\* remote status by removed, or by added, so that two runs with the same
\* paths in the same order agree whatever their kinds.
C25_OnlyPathsMatter ==
  Succeeded =>
    \A kl \in LocalKinds, kr \in RemoteKinds :
      findCommonChanges(WithKind(localChanges, kl), WithKind(RemoteFiles, kr))
        = result[1].potentialConflicts

\* deleted locally, removed remotely: still reported
C25_Witness ==
  /\ Succeeded
  /\ \E i \in 1..Len(localChanges) :
       localChanges[i] = [filename |-> <<"f">>, status |-> <<"D">>]
  /\ RemoteFiles = <<[filename |-> <<"f">>, status |-> <<"removed">>]>>
  /\ result[1].potentialConflicts = << <<"f">> >>


\* out with the whitespace around each of its lines removed
Unpadded(out) ==
  LET lines == Split(out, "\n") IN
  Join([i \in 1..Len(lines) |-> Trim(lines[i])], "\n")

\* C26: no path read from the diff output has whitespace at either end;
\* the change lines give the entries they give without their padding; and
\* against every remote list the output gives the conflicts it gives
\* without its padding.
C26_PaddingOfDiffLinesIgnored ==
  LocalParsed =>
    LET plain == parseGitDiffOutput(Unpadded(DiffOutput)) IN
    /\ \A k \in 1..Len(localChanges) :
         localChanges[k].filename = Trim(localChanges[k].filename)
    /\ SelectSeq(localChanges, HasKind) = plain
    /\ \A remote \in RemoteLists :
         findCommonChanges(localChanges, remote)
           = findCommonChanges(plain, remote)

\* the padded line ' D<TAB>f ' was read as kind D and path f
C26_Witness ==
  /\ LocalParsed
  /\ Contains(DiffOutput, <<" ", "D", "\t", "f", " ">>)
  /\ Unpadded(DiffOutput) # DiffOutput
  /\ \E k \in 1..Len(localChanges) :
       localChanges[k] = [filename |-> <<"f">>, status |-> <<"D">>]


RenameLine == <<"R", "\t", "f", "\t", "g">>
CombinedPath == <<"f", "\t", "g">>
\* remote lists that name the old path, the new path, the combined string
RenameRemotes ==
  UNION {[1..k -> { [filename |-> <<"f">>, status |-> <<"modified">>],
                    [filename |-> <<"g">>, status |-> <<"added">>],
                    [filename |-> CombinedPath, status |-> <<"renamed">>] }]
           : k \in 0..2}

\* C29: the line 'R<TAB>f<TAB>g' becomes one entry with the path
\* 'f<TAB>g'; against any remote list a path is reported exactly when the
\* remote list has it and a local entry has that very path, so with the
\* rename as the only local change to f and g neither of them is reported.
C29_RenameMatchedByCombinedPathOnly ==
  LocalParsed =>
    LET lines == NonBlankLines(DiffOutput)
        entries == SelectSeq(localChanges, HasKind)
    IN /\ \A k \in 1..Len(lines) :
            Trim(lines[k]) = RenameLine
              => entries[k] = [filename |-> CombinedPath, status |-> <<"R">>]
       /\ \A remote \in RenameRemotes :
            \A p \in {<<"f">>, <<"g">>, CombinedPath} :
              Includes(findCommonChanges(localChanges, remote), p)
                <=> /\ \E j \in 1..Len(remote) : remote[j].filename = p
                    /\ \E k \in 1..Len(localChanges) :
                         localChanges[k].filename = p

\* the rename is the only local change
C29_Witness ==
  /\ LocalParsed
  /\ DiffOutput = RenameLine
  /\ localChanges = <<[filename |-> CombinedPath, status |-> <<"R">>]>>
  /\ findCommonChanges(localChanges,
                       <<[filename |-> <<"f">>, status |-> <<"modified">>],
                         [filename |-> <<"g">>, status |-> <<"added">>]>>)
       = <<>>


\* C30 (as claimed): when the token file cannot be read no detector is
\* made and no external call issued; when the result has the error
\* property the run ends with code 1, the error line on standard error,
\* nothing on standard output and no output file written; when a token
\* and a token file are both named, the detector gets the trimmed content
\* of the file.
C30_OutputOnlyOnSuccess ==
  /\ TokenFileUnreadable => pc = "NoDetector" /\ calls = <<>>
  /\ (Exited /\ CarriesError) =>
       /\ cli.exitCode = Some(1)
       /\ cli.stderr = Some(<<"Error", ": ">> \o result[1].error[1])
       /\ cli.stdout = None
       /\ cli.file = None
  /\ (cli.at \in {"awaiting", "exited"} /\ pc # "NoDetector"
        /\ cli.argv.token # <<>> /\ cli.argv.tokenFile # <<>>) =>
       config.accessToken = Trim(cli.read[1].out)


OtherSettled ==
  caller.other # None /\ caller.other[1].pc \in {"Done", "Rejected"}

\* C27: with two invocations on detectors of different configs taking
\* turns at the pending HTTP call, each one settles with the result, and
\* has made the calls, of a run by itself with its own config and the
\* answers its own calls got.
C27_EachAsIfAlone ==
  /\ Settled =>
       /\ result = RunAlone(config, heard).result
       /\ calls = RunAlone(config, heard).io
  /\ OtherSettled =>
       LET o == caller.other[1] IN
       /\ o.result = RunAlone(o.config, o.heard).result
       /\ o.calls = RunAlone(o.config, o.heard).io

\* both were pending at once and both succeeded, with different results
C27_Witness ==
  /\ caller.interleaved
  /\ Succeeded
  /\ OtherSettled
  /\ caller.other[1].pc = "Done"
  /\ caller.other[1].result[1].error = None
  /\ caller.other[1].config # config
  /\ caller.other[1].result # result


\* C28: an invocation settles with the result, and has made the calls, of
\* a run by itself on the content the config object had when
\* findPotentialConflicts was called: what the caller wrote before the
\* call counts, what it writes while the HTTP request is pending does not.
C28_ConfigReadAtCallOnly ==
  (Settled /\ caller.called # None) =>
    /\ result = RunAlone(caller.called[1], heard).result
    /\ calls = RunAlone(caller.called[1], heard).io

\* constructed for branch a, called for branch A, the owner removed while
\* the request for A was pending: the run succeeds
C28_Witness ==
  /\ Succeeded
  /\ caller.constructed # None /\ caller.called # None
  /\ caller.constructed[1].branchA = <<"a">>
  /\ caller.called[1].branchA = <<"A">>
  /\ config.owner = <<>>
  /\ calls[Len(calls)].arg =
       <<"https://api.github.com/repos/", "o", "/", "r", "/compare/", "c",
         "...", "A">>

====
